---- MODULE Spec2Model ----
(***************************************************************************)
(* The relay of src/relayer.py: POST /api/lecturas validates a sensor      *)
(* reading, pins it to the content store (best effort) and commits it to   *)
(* the contract's storeReading through the chain node.                     *)
(*                                                                         *)
(* One request is a process that moves through the handler's code          *)
(* locations; a step is the code between two external calls.  The content  *)
(* store and the chain node are the environment: their answers are chosen  *)
(* nondeterministically, the node's acceptance rules and mining are        *)
(* modelled as the node applies them.                                      *)
(*                                                                         *)
(* Decimal readings are held in hundredths (2345 is 23.45) and scaled      *)
(* readings in tenths, so that temp_c * 10 keeps one fractional digit for  *)
(* round() to decide on.                                                   *)
(***************************************************************************)
EXTENDS Integers, Sequences, FiniteSets, TLC

\* ------------------------------------------------------------------ bounds
NumReqs == 2          \* request slots of the server
MaxRequests == 2      \* requests the server receives over a run
MaxGasPrice == 2      \* gas prices the node may quote: 1..MaxGasPrice

\* ------------------------------------------------------- program constants
GAS_LIMIT == 300000
INT16_MIN == -32768
INT16_MAX == 32767
UINT16_MAX == 65535

Reqs == 1..NumReqs

VARIABLES
    PRIVATE_KEY,    \* module configuration: the signing key, line 15
    CONTRACT_ADDRESS,   \* the contract's address, line 22
    CHAIN_ID,       \* the chain identifier, line 27
    PINATA_JWT,     \* the content-store credential, line 29
    w3,             \* the RPC handle, line 51
    account,        \* the sending account, line 55
    pc,             \* pc[r]: the code location request r is at
    body,           \* body[r]: the HTTP body request r arrived with
    device_id, temp_c, hum, timestamp_ms,      \* locals of recibir_lectura
    temp_times10, hum_times10, cid, nonce, tx, tx_hash, receipt,
    result,         \* result[r]: the HTTP response of request r
    calls,          \* calls[r]: calls made to each collaborator by request r
    stages,         \* stages[r]: the pipeline stages request r has entered
    failedAt,       \* failedAt[r]: the line whose exception ended request r
    uploaded,       \* uploaded[r]: what the content store answered request r
    served,         \* requests received so far
    txCount,        \* chain node: transactions of the account mined so far
    pending,        \* chain node: the account's transactions in the pool
    mined           \* chain node: the account's mined transactions and blocks

cfgVars ==
    <<PRIVATE_KEY, CONTRACT_ADDRESS, CHAIN_ID, PINATA_JWT, w3, account>>
reqVars == <<pc, body, device_id, temp_c, hum, timestamp_ms, temp_times10,
             hum_times10, cid, nonce, tx, tx_hash, receipt, result, calls,
             stages, failedAt, uploaded, served>>
localVars == <<device_id, temp_c, hum, timestamp_ms, temp_times10,
               hum_times10, cid, nonce, tx, tx_hash, receipt>>
chainVars == <<txCount, pending, mined>>
vars == <<PRIVATE_KEY, CONTRACT_ADDRESS, CHAIN_ID, PINATA_JWT, w3, account,
          pc, body, device_id, temp_c, hum, timestamp_ms,
          temp_times10, hum_times10, cid, nonce, tx, tx_hash, receipt,
          result, calls, stages, failedAt, uploaded, served,
          txCount, pending, mined>>

\* ------------------------------------------------------------ input values
\* A JSON value of a body field, by what float() and int() make of it.
\*   absent: the key is not in the object
\*   bad:    float()/int() raise ValueError or TypeError ("abc", null, [])
\*   num:    a number or numeric string; v is its value (hundredths for
\*           temperature and humidity, milliseconds for timestamp_ms)
\*   inf:    1e999 or "inf": float() gives inf, int() raises OverflowError
\*   nan:    "nan": float() gives nan
Absent == [k |-> "absent", v |-> 0]
Bad == [k |-> "bad", v |-> 0]
Inf == [k |-> "inf", v |-> 0]
NaN == [k |-> "nan", v |-> 0]
Num(n) == [k |-> "num", v |-> n]

\* 23.45 (the spec's scenario), and 3276.75, whose scaled form 32767.5
\* rounds to 32768, just outside int16.
TemperatureInputs == {Absent, Bad, Inf, Num(2345), Num(327675)}
\* 60.2, and -0.1, whose scaled form -1 is outside uint16.
HumidityInputs == {Absent, Bad, NaN, Num(6020), Num(-10)}
TimestampInputs == {Absent, Bad, Inf, Num(1700)}
\* device_id: "" stands for a body without the key, which line 101 reads as
\* "unknown-device"; any other value is the string the body gives.
DeviceInputs == {""}

\* The body of a request: not JSON at all ("invalid"), a JSON value that is
\* no object ("other": a list, a string, a number, null), or a JSON object
\* with its fields.
NoBody == [json |-> "invalid", device_id |-> "", temperature |-> Absent,
           humidity |-> Absent, timestamp_ms |-> Absent]
Bodies ==
    {NoBody, [NoBody EXCEPT !.json = "other"]}
    \cup [json : {"object"}, device_id : DeviceInputs,
          temperature : TemperatureInputs, humidity : HumidityInputs,
          timestamp_ms : TimestampInputs]

\* ------------------------------------------------------------- conversions
\* float(x): a float is finite (hundredths), inf or nan; "bad" raises
\* ValueError or TypeError.
FloatRaises(x) == x.k = "bad"
Float(x) == IF x.k = "num" THEN [k |-> "fin", v |-> x.v]
            ELSE [k |-> x.k, v |-> 0]

\* int(x) raises ValueError/TypeError (caught at line 116) ...
IntRaisesValueError(x) == x.k \in {"bad", "nan"}
\* ... or OverflowError, which line 116 does not catch.
IntRaisesOverflow(x) == x.k = "inf"

\* Rounding of halves upwards, as int(x * 10 + 0.5) would for x >= 0.
RoundHalfUp(n) == (n + 5) \div 10

\* round(): Python 3 rounds to the nearest integer, halves to the even one.
\* n is the value in tenths of the result's unit (temp_c * 10 of a reading
\* held in hundredths).
RoundHalfEven(n) ==
    LET q == n \div 10
        m == n % 10
    IN  IF m > 5 \/ (m = 5 /\ q % 2 = 1) THEN q + 1 ELSE q

\* int(round(x * 10)) of a float: raises on inf (OverflowError) and nan
\* (ValueError), neither inside a try.
ScaleRaises(x) == x.k \in {"inf", "nan"}
Times10(x) == RoundHalfEven(x.v)

\* ---------------------------------------------------------------- results
NoResult == [status |-> 0, detail |-> "", tx_hash |-> <<>>, block |-> 0,
             cid |-> ""]
\* raise HTTPException(status_code, detail)
HTTPException(code, detail) ==
    [status |-> code, detail |-> detail, tx_hash |-> <<>>, block |-> 0,
     cid |-> ""]
\* An exception no handler catches: the framework answers 500.
Unhandled == HTTPException(500, "Internal Server Error")
\* bytes.hex() of a transaction hash
Hex(h) == <<"hex", h>>
\* Ok without the upload's identifier.
Ok_DropsCid(h, b, c) ==
    [status |-> 200, detail |-> "ok", tx_hash |-> Hex(h), block |-> b,
     cid |-> ""]

\* return {"status": "ok", "tx_hash": ..., "block": ..., "cid": ...}
Ok(h, b, c) ==
    [status |-> 200, detail |-> "ok", tx_hash |-> Hex(h), block |-> b,
     cid |-> c]

NoCalls == [pinata |-> 0, nonce |-> 0, gas_price |-> 0, sign |-> 0,
            send |-> 0, wait |-> 0]
NoTx == [from |-> "", to |-> "", nonce |-> 0, device_id |-> "", temp |-> 0,
         hum |-> 0, ts |-> 0, gas |-> 0, gasPrice |-> 0, chainId |-> 0]
NoFloat == [k |-> "fin", v |-> 0]
NoReceipt == [blockNumber |-> 0]
NoUpload == "none"

\* The state after the module has loaded (lines 11-58): the configuration
\* read from the environment, the handle and the account made of it.
Init ==
    /\ PRIVATE_KEY = "key"
    /\ CONTRACT_ADDRESS = "0xC0"
    /\ CHAIN_ID = 11155111
    /\ PINATA_JWT \in {"None", "", "jwt"}
    /\ w3 = [provider |-> "RPC_URL"]
    /\ account = [address |-> "0xA1", key |-> "key"]
    /\ pc = [r \in Reqs |-> "idle"]
    /\ body = [r \in Reqs |-> NoBody]
    /\ device_id = [r \in Reqs |-> ""]
    /\ temp_c = [r \in Reqs |-> NoFloat]
    /\ hum = [r \in Reqs |-> NoFloat]
    /\ timestamp_ms = [r \in Reqs |-> 0]
    /\ temp_times10 = [r \in Reqs |-> 0]
    /\ hum_times10 = [r \in Reqs |-> 0]
    /\ cid = [r \in Reqs |-> ""]
    /\ nonce = [r \in Reqs |-> 0]
    /\ tx = [r \in Reqs |-> NoTx]
    /\ tx_hash = [r \in Reqs |-> NoTx]
    /\ receipt = [r \in Reqs |-> NoReceipt]
    /\ result = [r \in Reqs |-> NoResult]
    /\ calls = [r \in Reqs |-> NoCalls]
    /\ stages = [r \in Reqs |-> <<>>]
    /\ failedAt = [r \in Reqs |-> ""]
    /\ uploaded = [r \in Reqs |-> NoUpload]
    /\ served = 0
    /\ txCount = 0
    /\ pending = {}
    /\ mined = {}

\* ---------------------------------------------------------------- helpers
Enter(r, stage) == [stages EXCEPT ![r] = Append(@, stage)]
Called(r, what) == [calls EXCEPT ![r][what] = @ + 1]

\* The handler of request r ends by raising: the response is res.
Raise(r, at, res) ==
    /\ pc' = [pc EXCEPT ![r] = "done"]
    /\ result' = [result EXCEPT ![r] = res]
    /\ failedAt' = [failedAt EXCEPT ![r] = at]
    /\ UNCHANGED stages

\* ChainError returning the error as a body instead of raising it.
ChainError_Returned(r, at, e) ==
    Raise(r, at, [status |-> 200, detail |-> e, tx_hash |-> <<>>,
                  block |-> 0, cid |-> ""])

\* except Exception as e: raise HTTPException(500, f"Error al enviar
\* transacción: {e}"), lines 176-182; e is the exception's message.
ChainError(r, at, e) == Raise(r, at, HTTPException(500, e))

\* The server runs the handler on one event loop: between its await at line
\* 96 and its response, no other request's handler runs.
LoopFree(r) == \A q \in Reqs \ {r} : pc[q] \in {"idle", "L96"}

\* ----------------------------------------------------------------- actions
\* A request reaches POST /api/lecturas (line 93-94).
Arrive(r) ==
    /\ pc[r] = "idle"
    /\ served < MaxRequests
    /\ LoopFree(r)
    /\ served' = served + 1
    /\ pc' = [pc EXCEPT ![r] = "L96"]
    /\ stages' = Enter(r, "Received")
    /\ UNCHANGED <<body, result, calls, failedAt, uploaded>>
    /\ UNCHANGED <<cfgVars, localVars, chainVars>>

\* data = await req.json(), lines 95-101: the body is read and parsed; of a
\* JSON value that is no object, data.get raises AttributeError, uncaught.
ParseJson(r) ==
    /\ pc[r] = "L96"
    /\ LoopFree(r)
    /\ \E b \in Bodies :
        /\ body' = [body EXCEPT ![r] = b]
        /\ IF b.json = "invalid"
           THEN /\ Raise(r, "L96", HTTPException(400, "JSON invalido"))
                /\ UNCHANGED device_id
           ELSE IF b.json = "other"
           THEN /\ Raise(r, "L101", Unhandled)
                /\ UNCHANGED device_id
           ELSE /\ pc' = [pc EXCEPT ![r] = "L104"]
                /\ device_id' = [device_id EXCEPT ![r] =
                       IF b.device_id = "" THEN "unknown-device"
                       ELSE b.device_id]
                /\ UNCHANGED <<result, stages, failedAt>>
    /\ UNCHANGED <<temp_c, hum, timestamp_ms, temp_times10, hum_times10, cid,
                   nonce, tx, tx_hash, receipt, calls, uploaded>>
    /\ UNCHANGED <<cfgVars, served, chainVars>>

\* MissingField without the check of lines 106-107.
MissingField_NoHumidityCheck(d) ==
    IF d.temperature.k = "absent" THEN "temperature"
    ELSE IF d.timestamp_ms.k = "absent" THEN "timestamp_ms"
    ELSE ""

\* Lines 104-109: the first required field the object lacks, "" if none.
MissingField(d) ==
    IF d.temperature.k = "absent" THEN "temperature"
    ELSE IF d.humidity.k = "absent" THEN "humidity"
    ELSE IF d.timestamp_ms.k = "absent" THEN "timestamp_ms"
    ELSE ""

\* data["..."] of a key the object lacks raises KeyError, which no handler
\* catches.
KeyErrorRaised(d) ==
    "absent" \in {d.temperature.k, d.humidity.k, d.timestamp_ms.k}

\* Lines 112-117: the conversions raise ValueError or TypeError.
ConversionFails(d) ==
    \/ FloatRaises(d.temperature)
    \/ FloatRaises(d.humidity)
    \/ IntRaisesValueError(d.timestamp_ms)

\* Lines 120-121: round() of inf or nan raises, outside any try.
ScalingRaises(d) ==
    \/ ScaleRaises(Float(d.temperature))
    \/ ScaleRaises(Float(d.humidity))

\* Lines 103-121: the required fields, the type conversions, the scaling.
Validate(r) ==
    /\ pc[r] = "L104"
    /\ LET d == body[r] IN
       IF MissingField(d) # ""
       THEN /\ Raise(r, "L104", HTTPException(400, "Campo requerido"))
            /\ UNCHANGED <<temp_c, hum, timestamp_ms, temp_times10,
                           hum_times10>>
       ELSE IF KeyErrorRaised(d)
       THEN /\ Raise(r, "L113", Unhandled)
            /\ UNCHANGED <<temp_c, hum, timestamp_ms, temp_times10,
                           hum_times10>>
       ELSE IF ConversionFails(d)
       THEN /\ Raise(r, "L116", HTTPException(400, "Error en tipos de datos"))
            /\ UNCHANGED <<temp_c, hum, timestamp_ms, temp_times10,
                           hum_times10>>
       ELSE IF IntRaisesOverflow(d.timestamp_ms)
       THEN /\ Raise(r, "L115", Unhandled)
            /\ UNCHANGED <<temp_c, hum, timestamp_ms, temp_times10,
                           hum_times10>>
       ELSE IF ScalingRaises(d)
       THEN /\ Raise(r, "L120", Unhandled)
            /\ UNCHANGED <<temp_c, hum, timestamp_ms, temp_times10,
                           hum_times10>>
       ELSE /\ temp_c' = [temp_c EXCEPT ![r] = Float(d.temperature)]
            /\ hum' = [hum EXCEPT ![r] = Float(d.humidity)]
            /\ timestamp_ms' = [timestamp_ms EXCEPT ![r] = d.timestamp_ms.v]
            /\ temp_times10' = [temp_times10 EXCEPT ![r] =
                   Times10(Float(d.temperature))]
            /\ hum_times10' = [hum_times10 EXCEPT ![r] =
                   Times10(Float(d.humidity))]
            /\ pc' = [pc EXCEPT ![r] = "L124"]
            /\ stages' = Enter(r, "Validated")
            /\ UNCHANGED <<result, failedAt>>
    /\ UNCHANGED <<body, device_id, cid, nonce, tx, tx_hash, receipt, calls,
                   uploaded>>
    /\ UNCHANGED <<cfgVars, served, chainVars>>

\* ------------------------------------------------------------ content store
CIDs == {"bafy123", "bafy456"}

\* What requests.post and the lines after it come to, lines 78-90:
\*   raised: a network error or the 30 s timeout (requests.post raises)
\*   non2xx: raise_for_status raises
\*   nohash: a 2xx answer without "IpfsHash" (r.json().get gives None)
\*   a CID:  a 2xx answer with that "IpfsHash"
PinataOutcomes == {"raised", "non2xx", "nohash"} \cup CIDs

\* NoCredential as "PINATA_JWT is None": the empty credential is used.
NoCredential_NoneOnly == PINATA_JWT = "None"

\* NoCredential with the test of line 67 inverted.
NoCredential_Inverted == PINATA_JWT \notin {"None", ""}

\* if not PINATA_JWT, line 67
NoCredential == PINATA_JWT \in {"None", ""}

\* subir_a_pinata(...) or "", lines 83-90 and 129
CidOf(outcome) == IF outcome \in CIDs THEN outcome ELSE ""

\* Upload without the except of lines 88-90: a failed upload leaves the
\* handler as an uncaught exception.
Upload_Propagates(r) ==
    /\ pc[r] = "L124"
    /\ IF NoCredential
       THEN /\ uploaded' = [uploaded EXCEPT ![r] = "skipped"]
            /\ cid' = [cid EXCEPT ![r] = ""]
            /\ stages' = Enter(r, "UploadSkipped")
            /\ pc' = [pc EXCEPT ![r] = "L141"]
            /\ UNCHANGED <<calls, result, failedAt>>
       ELSE \E o \in PinataOutcomes :
            /\ uploaded' = [uploaded EXCEPT ![r] = o]
            /\ cid' = [cid EXCEPT ![r] = CidOf(o)]
            /\ calls' = Called(r, "pinata")
            /\ IF o \in {"raised", "non2xx"}
               THEN Raise(r, "L79", Unhandled)
               ELSE /\ stages' = Enter(r, IF CidOf(o) = ""
                                           THEN "UploadSkipped"
                                           ELSE "Uploaded")
                    /\ pc' = [pc EXCEPT ![r] = "L141"]
                    /\ UNCHANGED <<result, failedAt>>
    /\ UNCHANGED <<body, device_id, temp_c, hum, timestamp_ms, temp_times10,
                   hum_times10, nonce, tx, tx_hash, receipt>>
    /\ UNCHANGED <<cfgVars, served, chainVars>>

\* Upload switching the uploads off after one has failed.
Upload_DropsCredential(r) ==
    /\ pc[r] = "L124"
    /\ IF NoCredential
       THEN /\ uploaded' = [uploaded EXCEPT ![r] = "skipped"]
            /\ cid' = [cid EXCEPT ![r] = ""]
            /\ stages' = Enter(r, "UploadSkipped")
            /\ UNCHANGED <<calls, PINATA_JWT>>
       ELSE \E o \in PinataOutcomes :
            /\ uploaded' = [uploaded EXCEPT ![r] = o]
            /\ cid' = [cid EXCEPT ![r] = CidOf(o)]
            /\ stages' = Enter(r, IF CidOf(o) = "" THEN "UploadSkipped"
                                   ELSE "Uploaded")
            /\ calls' = Called(r, "pinata")
            /\ PINATA_JWT' = IF CidOf(o) = "" THEN "None" ELSE PINATA_JWT
    /\ pc' = [pc EXCEPT ![r] = "L141"]
    /\ UNCHANGED <<body, device_id, temp_c, hum, timestamp_ms, temp_times10,
                   hum_times10, nonce, tx, tx_hash, receipt, result,
                   failedAt>>
    /\ UNCHANGED <<PRIVATE_KEY, CONTRACT_ADDRESS, CHAIN_ID, w3, account>>
    /\ UNCHANGED <<served, chainVars>>

\* cid = subir_a_pinata({...}) or "", lines 123-129 and 66-90.
Upload(r) ==
    /\ pc[r] = "L124"
    /\ IF NoCredential
       THEN /\ uploaded' = [uploaded EXCEPT ![r] = "skipped"]
            /\ cid' = [cid EXCEPT ![r] = ""]
            /\ stages' = Enter(r, "UploadSkipped")
            /\ UNCHANGED calls
       ELSE \E o \in PinataOutcomes :
            /\ uploaded' = [uploaded EXCEPT ![r] = o]
            /\ cid' = [cid EXCEPT ![r] = CidOf(o)]
            /\ stages' = Enter(r, IF CidOf(o) = "" THEN "UploadSkipped"
                                   ELSE "Uploaded")
            /\ calls' = Called(r, "pinata")
    /\ pc' = [pc EXCEPT ![r] = "L141"]
    /\ UNCHANGED <<body, device_id, temp_c, hum, timestamp_ms, temp_times10,
                   hum_times10, nonce, tx, tx_hash, receipt, result,
                   failedAt>>
    /\ UNCHANGED <<cfgVars, served, chainVars>>

\* --------------------------------------------------------------- chain node
\* GetNonce swallowing a failed read and going on with nonce 0.
GetNonce_Swallows(r) ==
    /\ pc[r] = "L141"
    /\ calls' = Called(r, "nonce")
    /\ \/ /\ nonce' = [nonce EXCEPT ![r] = txCount]
          /\ UNCHANGED failedAt
       \/ /\ nonce' = [nonce EXCEPT ![r] = 0]
          /\ failedAt' = [failedAt EXCEPT ![r] = "L141"]
    /\ pc' = [pc EXCEPT ![r] = "L144"]
    /\ UNCHANGED <<body, device_id, temp_c, hum, timestamp_ms, temp_times10,
                   hum_times10, cid, tx, tx_hash, receipt, uploaded, result,
                   stages>>
    /\ UNCHANGED <<cfgVars, served, chainVars>>

\* nonce = w3.eth.get_transaction_count(account.address), line 141: the
\* node answers with the count of mined transactions, or the call fails.
GetNonce(r) ==
    /\ pc[r] = "L141"
    /\ calls' = Called(r, "nonce")
    /\ \/ /\ nonce' = [nonce EXCEPT ![r] = txCount]
          /\ pc' = [pc EXCEPT ![r] = "L144"]
          /\ UNCHANGED <<result, stages, failedAt>>
       \/ /\ ChainError(r, "L141", "ConnectionError")
          /\ UNCHANGED nonce
    /\ UNCHANGED <<body, device_id, temp_c, hum, timestamp_ms, temp_times10,
                   hum_times10, cid, tx, tx_hash, receipt, uploaded>>
    /\ UNCHANGED <<cfgVars, served, chainVars>>

\* The ABI of storeReading, lines 32-45: (string, int16, uint16, uint256).
\* The contract function refuses arguments its types cannot encode.
Encodable(t10, h10, ts) ==
    /\ INT16_MIN <= t10 /\ t10 <= INT16_MAX
    /\ 0 <= h10 /\ h10 <= UINT16_MAX
    /\ 0 <= ts

\* The gas prices w3.eth.gas_price may answer with, line 154: the node's
\* quote at the time of the read.
GasPrices == 1..MaxGasPrice

\* Build giving the call more gas when there is an identifier to send.
Build_WithCid(r) ==
    /\ pc[r] = "L144"
    /\ IF ~Encodable(temp_times10[r], hum_times10[r], timestamp_ms[r])
       THEN /\ ChainError(r, "L144", "MismatchedABI")
            /\ UNCHANGED <<tx, calls>>
       ELSE /\ calls' = Called(r, "gas_price")
            /\ \/ /\ \E g \in GasPrices : tx' = [tx EXCEPT ![r] =
                         [from |-> account.address,
                          to |-> CONTRACT_ADDRESS,
                          nonce |-> nonce[r], device_id |-> device_id[r],
                          temp |-> temp_times10[r], hum |-> hum_times10[r],
                          ts |-> timestamp_ms[r],
                          gas |-> IF cid[r] = "" THEN GAS_LIMIT
                                  ELSE GAS_LIMIT + 50000,
                          gasPrice |-> g, chainId |-> CHAIN_ID]]
                  /\ pc' = [pc EXCEPT ![r] = "L161"]
                  /\ stages' = Enter(r, "Built")
                  /\ UNCHANGED <<result, failedAt>>
               \/ /\ ChainError(r, "L154", "ConnectionError")
                  /\ UNCHANGED tx
    /\ UNCHANGED <<body, device_id, temp_c, hum, timestamp_ms, temp_times10,
                   hum_times10, cid, nonce, tx_hash, receipt, uploaded>>
    /\ UNCHANGED <<cfgVars, served, chainVars>>

\* tx = contract.functions.storeReading(...).build_transaction({...}), lines
\* 144-157: the arguments are matched against the ABI, then the gas price is
\* read for the transaction's fields.
Build(r) ==
    /\ pc[r] = "L144"
    /\ IF ~Encodable(temp_times10[r], hum_times10[r], timestamp_ms[r])
       THEN /\ ChainError(r, "L144", "MismatchedABI")
            /\ UNCHANGED <<tx, calls>>
       ELSE /\ calls' = Called(r, "gas_price")
            /\ \/ /\ \E g \in GasPrices : tx' = [tx EXCEPT ![r] =
                         [from |-> account.address,
                          to |-> CONTRACT_ADDRESS,
                          nonce |-> nonce[r], device_id |-> device_id[r],
                          temp |-> temp_times10[r], hum |-> hum_times10[r],
                          ts |-> timestamp_ms[r], gas |-> GAS_LIMIT,
                          gasPrice |-> g, chainId |-> CHAIN_ID]]
                  /\ pc' = [pc EXCEPT ![r] = "L161"]
                  /\ stages' = Enter(r, "Built")
                  /\ UNCHANGED <<result, failedAt>>
               \/ /\ ChainError(r, "L154", "ConnectionError")
                  /\ UNCHANGED tx
    /\ UNCHANGED <<body, device_id, temp_c, hum, timestamp_ms, temp_times10,
                   hum_times10, cid, nonce, tx_hash, receipt, uploaded>>
    /\ UNCHANGED <<cfgVars, served, chainVars>>

\* signed_tx = w3.eth.account.sign_transaction(tx, PRIVATE_KEY), line 161: a
\* local computation, which raises on a transaction it cannot sign.
Sign(r) ==
    /\ pc[r] = "L161"
    /\ calls' = Called(r, "sign")
    /\ \/ /\ pc' = [pc EXCEPT ![r] = "L163"]
          /\ stages' = Enter(r, "Signed")
          /\ UNCHANGED <<result, failedAt>>
       \/ ChainError(r, "L161", "SigningError")
    /\ UNCHANGED <<body, device_id, temp_c, hum, timestamp_ms, temp_times10,
                   hum_times10, cid, nonce, tx, tx_hash, receipt, uploaded>>
    /\ UNCHANGED <<cfgVars, served, chainVars>>

\* A device id long enough for storeReading to need more gas than GAS_LIMIT
\* (the contract is not part of the repository), short enough for the
\* transaction's intrinsic gas to stay below it.
LongDeviceId == "device-id-of-5000-characters"

\* The execution of transaction t needs more gas than its gas limit.
Exhausts(t) == t.device_id = LongDeviceId /\ t.gas = GAS_LIMIT

\* The status of the receipt of a mined transaction: 0 when its execution
\* ran out of gas (it is mined, reverted, and uses up its nonce), else 1.
\* The handler reads blockNumber only (line 172).
ReceiptStatus(t) == IF Exhausts(t) THEN 0 ELSE 1

\* A node that takes every transaction into its pool.
NodeVerdict_AcceptsAll(t) == "accept"

\* The node's answer to eth_sendRawTransaction of t: "accept", or the reason
\* it rejects t for.
NodeVerdict(t) ==
    IF t.nonce < txCount THEN "nonce too low"
    ELSE IF t \in pending THEN "already known"
    ELSE IF \E p \in pending : p.nonce = t.nonce /\ t.gasPrice <= p.gasPrice
    THEN "replacement transaction underpriced"
    ELSE "accept"

\* Send going back to the nonce read when the node rejects the transaction.
Send_Retries(r) ==
    /\ pc[r] = "L163"
    /\ calls' = Called(r, "send")
    /\ \/ /\ NodeVerdict(tx[r]) = "accept"
          /\ pending' = {p \in pending : p.nonce # tx[r].nonce}
                            \cup {tx[r]}
          /\ tx_hash' = [tx_hash EXCEPT ![r] = tx[r]]
          /\ pc' = [pc EXCEPT ![r] = "L166"]
          /\ stages' = Enter(r, "Broadcast")
       \/ /\ pc' = [pc EXCEPT ![r] = "L141"]
          /\ UNCHANGED <<pending, tx_hash, stages>>
    /\ UNCHANGED <<body, device_id, temp_c, hum, timestamp_ms, temp_times10,
                   hum_times10, cid, nonce, tx, receipt, uploaded, result,
                   failedAt>>
    /\ UNCHANGED <<cfgVars, served, txCount, mined>>

\* tx_hash = w3.eth.send_raw_transaction(signed_tx.raw_transaction), line
\* 163.  An accepted transaction enters the pool, in the place of a cheaper
\* one of the same nonce; its hash identifies it.  A node checks the nonce,
\* the funds and the pool; one that also executes the transaction at
\* submission (a development node) rejects it when it runs out of gas.
Send(r) ==
    /\ pc[r] = "L163"
    /\ calls' = Called(r, "send")
    /\ \/ /\ NodeVerdict(tx[r]) = "accept"
          /\ pending' = {p \in pending : p.nonce # tx[r].nonce}
                            \cup {tx[r]}
          /\ tx_hash' = [tx_hash EXCEPT ![r] = tx[r]]
          /\ pc' = [pc EXCEPT ![r] = "L166"]
          /\ stages' = Enter(r, "Broadcast")
          /\ UNCHANGED <<result, failedAt>>
       \/ /\ NodeVerdict(tx[r]) # "accept"
          /\ ChainError(r, "L163", NodeVerdict(tx[r]))
          /\ UNCHANGED <<pending, tx_hash>>
       \/ /\ \E e \in {"ConnectionError", "insufficient funds"} :
                 ChainError(r, "L163", e)
          /\ UNCHANGED <<pending, tx_hash>>
       \/ /\ Exhausts(tx[r])
          /\ ChainError(r, "L163", "out of gas")
          /\ UNCHANGED <<pending, tx_hash>>
    /\ UNCHANGED <<body, device_id, temp_c, hum, timestamp_ms, temp_times10,
                   hum_times10, cid, nonce, tx, receipt, uploaded>>
    /\ UNCHANGED <<cfgVars, served, txCount, mined>>

\* The receipt the node holds for hash h, if the transaction is mined.
Receipts(h) == {m \in mined : m.tx = h}

\* Wait sending the transaction again when the wait elapses.
Wait_Rebroadcasts(r) ==
    /\ pc[r] = "L166"
    /\ calls' = Called(r, "wait")
    /\ \/ /\ \E m \in Receipts(tx_hash[r]) :
                /\ receipt' = [receipt EXCEPT ![r] =
                       [blockNumber |-> m.blockNumber]]
                /\ result' = [result EXCEPT ![r] =
                       Ok(tx_hash[r], m.blockNumber, cid[r])]
                /\ pc' = [pc EXCEPT ![r] = "done"]
                /\ stages' = Enter(r, "Confirmed")
          /\ UNCHANGED failedAt
       \/ /\ Receipts(tx_hash[r]) = {}
          /\ calls[r].wait = 0
          /\ pc' = [pc EXCEPT ![r] = "L163"]
          /\ UNCHANGED <<receipt, result, stages, failedAt>>
       \/ /\ ChainError(r, "L166", "ConnectionError")
          /\ UNCHANGED receipt
    /\ UNCHANGED <<body, device_id, temp_c, hum, timestamp_ms, temp_times10,
                   hum_times10, cid, nonce, tx, tx_hash, uploaded>>
    /\ UNCHANGED <<cfgVars, served, chainVars>>

\* Wait withdrawing the transaction from the pool when the wait elapses.
Wait_Cancels(r) ==
    /\ pc[r] = "L166"
    /\ calls' = Called(r, "wait")
    /\ \/ /\ \E m \in Receipts(tx_hash[r]) :
                /\ receipt' = [receipt EXCEPT ![r] =
                       [blockNumber |-> m.blockNumber]]
                /\ result' = [result EXCEPT ![r] =
                       Ok(tx_hash[r], m.blockNumber, cid[r])]
                /\ pc' = [pc EXCEPT ![r] = "done"]
                /\ stages' = Enter(r, "Confirmed")
          /\ UNCHANGED <<failedAt, chainVars>>
       \/ /\ Receipts(tx_hash[r]) = {}
          /\ ChainError(r, "L166", "TimeExhausted")
          /\ pending' = pending \ {tx_hash[r]}
          /\ UNCHANGED <<receipt, txCount, mined>>
       \/ /\ ChainError(r, "L166", "ConnectionError")
          /\ UNCHANGED <<receipt, chainVars>>
    /\ UNCHANGED <<body, device_id, temp_c, hum, timestamp_ms, temp_times10,
                   hum_times10, cid, nonce, tx, tx_hash, uploaded>>
    /\ UNCHANGED <<cfgVars, served>>

\* Wait without a bound on the wait: it returns only with a receipt.
Wait_NoTimeout(r) ==
    /\ pc[r] = "L166"
    /\ calls' = Called(r, "wait")
    /\ \E m \in Receipts(tx_hash[r]) :
        /\ receipt' = [receipt EXCEPT ![r] = [blockNumber |-> m.blockNumber]]
        /\ result' = [result EXCEPT ![r] =
               Ok(tx_hash[r], m.blockNumber, cid[r])]
        /\ pc' = [pc EXCEPT ![r] = "done"]
        /\ stages' = Enter(r, "Confirmed")
        /\ UNCHANGED failedAt
    /\ UNCHANGED <<body, device_id, temp_c, hum, timestamp_ms, temp_times10,
                   hum_times10, cid, nonce, tx, tx_hash, uploaded>>
    /\ UNCHANGED <<cfgVars, served, chainVars>>

\* receipt = w3.eth.wait_for_transaction_receipt(tx_hash) and the return,
\* lines 166-174: the receipt once the transaction is mined, TimeExhausted
\* when the wait elapses first.
Wait(r) ==
    /\ pc[r] = "L166"
    /\ calls' = Called(r, "wait")
    /\ \/ \E m \in Receipts(tx_hash[r]) :
            /\ receipt' = [receipt EXCEPT ![r] =
                   [blockNumber |-> m.blockNumber]]
            /\ result' = [result EXCEPT ![r] =
                   Ok(tx_hash[r], m.blockNumber, cid[r])]
            /\ pc' = [pc EXCEPT ![r] = "done"]
            /\ stages' = Enter(r, "Confirmed")
            /\ UNCHANGED failedAt
       \/ /\ Receipts(tx_hash[r]) = {}
          /\ ChainError(r, "L166", "TimeExhausted")
          /\ UNCHANGED receipt
       \/ /\ ChainError(r, "L166", "ConnectionError")
          /\ UNCHANGED receipt
    /\ UNCHANGED <<body, device_id, temp_c, hum, timestamp_ms, temp_times10,
                   hum_times10, cid, nonce, tx, tx_hash, uploaded>>
    /\ UNCHANGED <<cfgVars, served, chainVars>>

\* The response is sent and the request's frame is gone.
Finish(r) ==
    /\ pc[r] = "done"
    /\ pc' = [pc EXCEPT ![r] = "idle"]
    /\ body' = [body EXCEPT ![r] = NoBody]
    /\ device_id' = [device_id EXCEPT ![r] = ""]
    /\ temp_c' = [temp_c EXCEPT ![r] = NoFloat]
    /\ hum' = [hum EXCEPT ![r] = NoFloat]
    /\ timestamp_ms' = [timestamp_ms EXCEPT ![r] = 0]
    /\ temp_times10' = [temp_times10 EXCEPT ![r] = 0]
    /\ hum_times10' = [hum_times10 EXCEPT ![r] = 0]
    /\ cid' = [cid EXCEPT ![r] = ""]
    /\ nonce' = [nonce EXCEPT ![r] = 0]
    /\ tx' = [tx EXCEPT ![r] = NoTx]
    /\ tx_hash' = [tx_hash EXCEPT ![r] = NoTx]
    /\ receipt' = [receipt EXCEPT ![r] = NoReceipt]
    /\ result' = [result EXCEPT ![r] = NoResult]
    /\ calls' = [calls EXCEPT ![r] = NoCalls]
    /\ stages' = [stages EXCEPT ![r] = <<>>]
    /\ failedAt' = [failedAt EXCEPT ![r] = ""]
    /\ uploaded' = [uploaded EXCEPT ![r] = NoUpload]
    /\ UNCHANGED <<cfgVars, served, chainVars>>

\* The network mines the pool's transaction of the account's next nonce.
Mine ==
    /\ \E t \in pending :
        /\ t.nonce = txCount
        /\ mined' = mined \cup {[tx |-> t, blockNumber |-> 42 + txCount]}
        /\ pending' = pending \ {t}
        /\ txCount' = txCount + 1
    /\ UNCHANGED <<cfgVars, reqVars>>

Step(r) ==
    \/ Arrive(r)
    \/ ParseJson(r)
    \/ Validate(r)
    \/ Upload(r)
    \/ GetNonce(r)
    \/ Build(r)
    \/ Sign(r)
    \/ Send(r)
    \/ Wait(r)
    \/ Finish(r)

Next ==
    \/ \E r \in Reqs : Step(r)
    \/ Mine

Spec == Init /\ [][Next]_vars

\* Every call the handler blocks on returns, fails or times out, and the
\* event loop resumes a handler that stays ready: a request that has arrived
\* keeps taking steps.  Nothing is assumed of the network (Mine) or of new
\* requests arriving.
Handle(r) ==
    \/ ParseJson(r)
    \/ Validate(r)
    \/ Upload(r)
    \/ GetNonce(r)
    \/ Build(r)
    \/ Sign(r)
    \/ Send(r)
    \/ Wait(r)
    \/ Finish(r)

FairSpec ==
    Spec /\ \A r \in Reqs : WF_vars(Handle(r))

\* ------------------------------------------------------ concurrent requests
\* The relayer run as several worker processes (uvicorn --workers), each
\* with its own event loop and the same configuration, account and node: the
\* handlers of two requests interleave at every call.  The requests carry a
\* valid reading.
WorkerBodies ==
    {[json |-> "object", device_id |-> "", temperature |-> Num(2345),
      humidity |-> Num(6020), timestamp_ms |-> Num(1700)]}

\* A request reaches POST /api/lecturas at a worker (line 93-94).
ArriveWorker(r) ==
    /\ pc[r] = "idle"
    /\ served < MaxRequests
    /\ served' = served + 1
    /\ pc' = [pc EXCEPT ![r] = "L96"]
    /\ stages' = Enter(r, "Received")
    /\ UNCHANGED <<body, result, calls, failedAt, uploaded>>
    /\ UNCHANGED <<cfgVars, localVars, chainVars>>

\* data = await req.json() and lines 95-101, of a body drawn from B, with
\* no other handler's state in the way.
ParseJsonFrom(r, B) ==
    /\ pc[r] = "L96"
    /\ \E b \in B :
        /\ body' = [body EXCEPT ![r] = b]
        /\ IF b.json = "invalid"
           THEN /\ Raise(r, "L96", HTTPException(400, "JSON invalido"))
                /\ UNCHANGED device_id
           ELSE IF b.json = "other"
           THEN /\ Raise(r, "L101", Unhandled)
                /\ UNCHANGED device_id
           ELSE /\ pc' = [pc EXCEPT ![r] = "L104"]
                /\ device_id' = [device_id EXCEPT ![r] =
                       IF b.device_id = "" THEN "unknown-device"
                       ELSE b.device_id]
                /\ UNCHANGED <<result, stages, failedAt>>
    /\ UNCHANGED <<temp_c, hum, timestamp_ms, temp_times10, hum_times10, cid,
                   nonce, tx, tx_hash, receipt, calls, uploaded>>
    /\ UNCHANGED <<cfgVars, served, chainVars>>

ParseJsonWorker(r) == ParseJsonFrom(r, WorkerBodies)

WorkerStep(r) ==
    \/ ArriveWorker(r)
    \/ ParseJsonWorker(r)
    \/ Validate(r)
    \/ Upload(r)
    \/ GetNonce(r)
    \/ Build(r)
    \/ Sign(r)
    \/ Send(r)
    \/ Wait(r)
    \/ Finish(r)

WorkersNext ==
    \/ \E r \in Reqs : WorkerStep(r)
    \/ Mine

\* The workers are started without a content-store credential.
WorkersInit == Init /\ PINATA_JWT = "None"

WorkersSpec == WorkersInit /\ [][WorkersNext]_vars

\* Each worker's handler keeps taking steps, as in FairSpec.
WorkerHandle(r) ==
    \/ ParseJsonWorker(r)
    \/ Validate(r)
    \/ Upload(r)
    \/ GetNonce(r)
    \/ Build(r)
    \/ Sign(r)
    \/ Send(r)
    \/ Wait(r)
    \/ Finish(r)

WorkersFairSpec ==
    WorkersSpec /\ \A r \in Reqs : WF_vars(WorkerHandle(r))

\* ------------------------------------------------------------ the scaler
\* Readings given in hundredths, for lines 119-121: temperatures around zero
\* and around both ends of int16, humidities from below zero and around the
\* end of uint16; every last digit, the exact halves among them.
HalfSpan == 60
EdgeSpan == 12
ScaleTemperatures ==
    (-HalfSpan..HalfSpan)
        \cup ((10 * INT16_MAX - EdgeSpan)..(10 * INT16_MAX + EdgeSpan))
        \cup ((10 * INT16_MIN - EdgeSpan)..(10 * INT16_MIN + EdgeSpan))
ScaleHumidities ==
    (-EdgeSpan..EdgeSpan)
        \cup ((10 * UINT16_MAX - EdgeSpan)..(10 * UINT16_MAX + EdgeSpan))
ScaleBodies ==
    [json : {"object"}, device_id : {""},
     temperature : {Num(n) : n \in ScaleTemperatures},
     humidity : {Num(n) : n \in ScaleHumidities},
     timestamp_ms : {Num(1700)}]

ParseJsonScale(r) == ParseJsonFrom(r, ScaleBodies)

\* One request with such a reading, up to the contract call.
ScaleNext ==
    \/ ArriveWorker(1)
    \/ ParseJsonScale(1)
    \/ Validate(1)
    \/ Upload(1)
    \/ GetNonce(1)
    \/ Build(1)

ScaleSpec == WorkersInit /\ [][ScaleNext]_vars

\* ---------------------------------------------------------- the gas limit
\* Valid readings of a device with a short and with a long device id.
GasBodies ==
    [json : {"object"}, device_id : {"", LongDeviceId},
     temperature : {Num(2345)}, humidity : {Num(6020)},
     timestamp_ms : {Num(1700)}]

ParseJsonGas(r) == ParseJsonFrom(r, GasBodies)

\* Requests with such readings, one at a time.
GasNext ==
    \/ ArriveWorker(1)
    \/ ParseJsonGas(1)
    \/ Validate(1)
    \/ Upload(1)
    \/ GetNonce(1)
    \/ Build(1)
    \/ Sign(1)
    \/ Send(1)
    \/ Wait(1)
    \/ Finish(1)
    \/ Mine

GasSpec == WorkersInit /\ [][GasNext]_vars

\* ------------------------------------------------- two requests in flight
\* Two requests with different readings, and one that lacks a field, each
\* at its own worker, with any credential.
FrameBodies ==
    {[json |-> "object", device_id |-> "", temperature |-> Num(2345),
      humidity |-> Num(6020), timestamp_ms |-> Num(1700)],
     [json |-> "object", device_id |-> "", temperature |-> Num(-25),
      humidity |-> Num(5), timestamp_ms |-> Num(1700)],
     [json |-> "object", device_id |-> "", temperature |-> Num(2345),
      humidity |-> Absent, timestamp_ms |-> Num(1700)]}

ParseJsonFrame(r) == ParseJsonFrom(r, FrameBodies)

FrameStep(r) ==
    \/ ArriveWorker(r)
    \/ ParseJsonFrame(r)
    \/ Validate(r)
    \/ Upload(r)
    \/ GetNonce(r)
    \/ Build(r)
    \/ Sign(r)
    \/ Send(r)
    \/ Wait(r)

\* Requests 1 and 2, each up to its answer.
FrameNext ==
    \/ \E r \in {1, 2} : FrameStep(r)
    \/ Mine

FrameSpec == Init /\ [][FrameNext]_vars

\* ------------------------------------------------------------------ claims
InStages(r, s) == \E i \in DOMAIN stages[r] : stages[r][i] = s
Answered(r) == pc[r] = "done"
\* No call to the content store or to the chain node, and nothing signed.
NoExternalCall(r) == calls[r] = NoCalls
LacksRequired(b) ==
    b.json = "object" /\ "absent" \in {b.temperature.k, b.humidity.k, b.timestamp_ms.k}

\* C1: a request whose JSON object lacks 'temperature', 'humidity' or
\* 'timestamp_ms', whatever its other fields are, is answered 400, and over
\* its whole handling no call is made to the content store or the chain node.
C1_MissingFieldRejected ==
    \A r \in Reqs :
        LacksRequired(body[r]) =>
            /\ NoExternalCall(r)
            /\ Answered(r) => result[r].status = 400

\* C1's case: only 'humidity' is missing, and the request is answered.
C1_Witness ==
    \E r \in Reqs :
        /\ Answered(r)
        /\ body[r].temperature = Num(2345)
        /\ body[r].humidity = Absent
        /\ body[r].timestamp_ms = Num(1700)
        /\ result[r].status = 400

\* A field that is present and that float() (temperature, humidity) or
\* int() (timestamp_ms) does not convert.
Unconvertible(b) ==
    /\ b.json = "object"
    /\ ~LacksRequired(b)
    /\ \/ b.temperature.k = "bad"
       \/ b.humidity.k = "bad"
       \/ b.timestamp_ms.k \in {"bad", "nan", "inf"}

\* C2: a request with all three fields present and one of them not
\* convertible to its type is answered 400 with no upload and no chain call.
C2_UnconvertibleRejected ==
    \A r \in Reqs :
        Unconvertible(body[r]) =>
            /\ NoExternalCall(r)
            /\ Answered(r) => result[r].status = 400

\* The scaled reading of a body whose fields convert, and whether it fits
\* int16 (temperature) and uint16 (humidity).
Converts(b) ==
    b.json = "object" /\ b.temperature.k = "num" /\ b.humidity.k = "num"
           /\ b.timestamp_ms.k = "num"
OutOfRange(b) ==
    \/ RoundHalfEven(b.temperature.v) < INT16_MIN
    \/ RoundHalfEven(b.temperature.v) > INT16_MAX
    \/ RoundHalfEven(b.humidity.v) < 0
    \/ RoundHalfEven(b.humidity.v) > UINT16_MAX

\* C3: a request whose scaled temperature is outside int16 or whose scaled
\* humidity is outside uint16 is rejected as a validation error (400) with
\* no upload and no chain call.
C3_OverflowRejected ==
    \A r \in Reqs :
        (Converts(body[r]) /\ OutOfRange(body[r])) =>
            /\ NoExternalCall(r)
            /\ Answered(r) => result[r].status = 400

\* The upload was attempted and gave no identifier because it failed: a
\* network error or timeout, a non-2xx answer, or an answer without one.
UploadFailed(r) == uploaded[r] \in {"raised", "non2xx", "nohash"}
\* The code locations after the upload.
AfterUpload == {"L141", "L144", "L161", "L163", "L166", "done"}
\* The lines of the chain stages, where a chain failure is raised.
ChainLines == {"L141", "L144", "L154", "L161", "L163", "L166"}

\* C4: a failed upload never fails the request: the request goes on to the
\* nonce read with an empty identifier, it is never answered before that
\* read was attempted, and if the chain stages succeed the answer is a
\* success whose cid is "".
C4_UploadFailureNotFatal ==
    \A r \in Reqs :
        UploadFailed(r) =>
            /\ pc[r] \in AfterUpload
            /\ cid[r] = ""
            /\ pc[r] = "L141" => (result[r] = NoResult /\ failedAt[r] = "")
            /\ Answered(r) => (calls[r].nonce = 1 /\ failedAt[r] \in
                                  ChainLines \cup {""})
            /\ InStages(r, "Confirmed") =>
                   (result[r].status = 200 /\ result[r].cid = "")

\* C4's case: the upload raised, and the request is answered with success.
C4_Witness ==
    \E r \in Reqs :
        /\ uploaded[r] = "raised"
        /\ calls[r].pinata = 1
        /\ Answered(r)
        /\ result[r].status = 200
        /\ result[r].cid = ""

\* C5: with the credential absent or empty a request makes no call to the
\* content store; the upload gives no identifier without failing the
\* request, which goes on to the nonce read with an empty identifier.
C5_NoCredentialSkipsUpload ==
    \A r \in Reqs :
        PINATA_JWT \in {"None", ""} =>
            /\ calls[r].pinata = 0
            /\ InStages(r, "Validated") /\ pc[r] # "L124" =>
                   /\ uploaded[r] = "skipped"
                   /\ cid[r] = ""
                   /\ pc[r] \in AfterUpload
                   /\ Answered(r) => calls[r].nonce = 1
                   /\ result[r].cid = ""

\* C5's case: the credential is empty and a validated request is answered
\* with success.
C5_Witness ==
    \E r \in Reqs :
        /\ PINATA_JWT = ""
        /\ uploaded[r] = "skipped"
        /\ Answered(r)
        /\ result[r].status = 200

\* C6: once the nonce read of a request has failed, the request is answered
\* with a server error and has made, and makes, no signing and no broadcast
\* call.
C6_NonceFailureAborts ==
    \A r \in Reqs :
        failedAt[r] = "L141" =>
            /\ Answered(r)
            /\ result[r].status = 500
            /\ calls[r].sign = 0
            /\ calls[r].send = 0
            /\ tx[r] = NoTx

\* C6's case: the nonce read failed after a successful upload.
C6_Witness ==
    \E r \in Reqs :
        /\ failedAt[r] = "L141"
        /\ calls[r].nonce = 1
        /\ uploaded[r] \in CIDs

\* C7: a validated request that fails at a chain stage is answered 500 with
\* a message and without a tx_hash; a validated request that is answered
\* and was not confirmed is answered 500, never with a success.
C7_ChainFailureIs500 ==
    \A r \in Reqs :
        /\ failedAt[r] \in ChainLines =>
               /\ Answered(r)
               /\ result[r].status = 500
               /\ result[r].detail # ""
               /\ result[r].tx_hash = <<>>
        /\ (InStages(r, "Validated") /\ Answered(r)
                /\ ~InStages(r, "Confirmed")) =>
               (result[r].status = 500 /\ failedAt[r] \in ChainLines)

\* C7's case: the node rejected the broadcast for a nonce collision.
C7_Witness ==
    \E r \in Reqs :
        /\ failedAt[r] = "L163"
        /\ result[r].status = 500
        /\ result[r].detail = "replacement transaction underpriced"

\* C8: a request confirmed is answered with a success, and a success carries
\* the hash of the transaction the request signed and broadcast, the block
\* of the receipt the node holds for it, and the identifier the upload
\* returned ("" if none).
C8_SuccessCarriesResults ==
    \A r \in Reqs :
        /\ (InStages(r, "Confirmed") /\ Answered(r)) =>
               result[r].status = 200
        /\ result[r].status = 200 =>
               /\ Answered(r)
               /\ calls[r].sign = 1 /\ calls[r].send = 1 /\ calls[r].wait = 1
               /\ InStages(r, "Signed") /\ InStages(r, "Broadcast")
               /\ InStages(r, "Confirmed")
               /\ tx[r] # NoTx
               /\ result[r].tx_hash = Hex(tx[r])
               /\ \E m \in mined :
                      m.tx = tx[r] /\ result[r].block = m.blockNumber
               /\ result[r].cid =
                      (IF uploaded[r] \in CIDs THEN uploaded[r] ELSE "")

\* C8's case: the second transaction of the account, with an identifier.
C8_Witness ==
    \E r \in Reqs :
        /\ result[r].status = 200
        /\ result[r].cid = "bafy456"
        /\ result[r].block = 43
        /\ tx[r].nonce = 1

\* The place of a stage in the pipeline's order.
Rank(s) ==
    CASE s = "Received" -> 1
      [] s = "Validated" -> 2
      [] s \in {"Uploaded", "UploadSkipped"} -> 3
      [] s = "Built" -> 4
      [] s = "Signed" -> 5
      [] s = "Broadcast" -> 6
      [] s = "Confirmed" -> 7

\* C9: the stages a request has entered are the first stages of Received,
\* Validated, Uploaded or UploadSkipped, Built, Signed, Broadcast, Confirmed,
\* each once and in that order; the upload (or its skip) precedes the nonce
\* read, which precedes signing, broadcast and the receipt wait, each made at
\* most once; an answered request is Confirmed or failed, never both.
C9_StagesInOrder ==
    \A r \in Reqs :
        /\ \A i \in DOMAIN stages[r] : Rank(stages[r][i]) = i
        /\ pc[r] # "idle" => Len(stages[r]) >= 1
        /\ calls[r].pinata <= 1 /\ calls[r].nonce <= 1 /\ calls[r].sign <= 1
        /\ calls[r].send <= 1 /\ calls[r].wait <= 1
        /\ calls[r].pinata = 1 => Len(stages[r]) >= 2
        /\ calls[r].nonce = 1 => Len(stages[r]) >= 3
        /\ calls[r].gas_price = 1 => calls[r].nonce = 1
        /\ calls[r].sign = 1 => (Len(stages[r]) >= 4 /\ calls[r].nonce = 1)
        /\ calls[r].send = 1 => (Len(stages[r]) >= 5 /\ calls[r].sign = 1)
        /\ calls[r].wait = 1 => (Len(stages[r]) >= 6 /\ calls[r].send = 1)
        /\ Answered(r) => (InStages(r, "Confirmed") <=> failedAt[r] = "")
        /\ ~Answered(r) => (failedAt[r] = "" /\ ~InStages(r, "Confirmed"))

\* C9's case: a request has passed all seven stages.
C9_Witness ==
    \E r \in Reqs :
        stages[r] = <<"Received", "Validated", "Uploaded", "Built", "Signed",
                      "Broadcast", "Confirmed">>

\* One result: a success or a failure.
OneResult(r) ==
    \/ result[r].status = 200 /\ failedAt[r] = ""
    \/ result[r].status \in {400, 500} /\ failedAt[r] # ""

\* C10: every request that has arrived is eventually answered, and it is
\* answered with exactly one result, a success or a failure; before that it
\* has no result.
C10_ExactlyOneResult ==
    /\ [](\A r \in Reqs : IF Answered(r) THEN OneResult(r)
                                         ELSE result[r] = NoResult)
    /\ \A r \in Reqs : (pc[r] = "L96") ~> Answered(r)

\* C10's case: a request answered when its receipt wait elapsed.
C10_Witness ==
    \E r \in Reqs :
        /\ Answered(r)
        /\ failedAt[r] = "L166"
        /\ result[r].detail = "TimeExhausted"

\* The calls a request makes to the content store and to the chain node.
CallKinds == {"pinata", "nonce", "gas_price", "sign", "send", "wait"}

\* C11: within one request nothing is tried twice: every call (the upload,
\* the nonce read, the gas price read, the signing, the broadcast, the
\* receipt wait) is made at most once, no step makes two calls, the outcome
\* of the upload once taken is kept, and a request that has failed makes no
\* further call and does nothing but send its answer.
C11_NoRetries ==
    [][\A r \in Reqs :
          /\ \A k \in CallKinds : calls'[r][k] <= 1
          /\ pc'[r] # "idle" =>
                 /\ \A k \in CallKinds : calls'[r][k] >= calls[r][k]
                 /\ uploaded[r] # NoUpload => uploaded'[r] = uploaded[r]
                 /\ tx_hash[r] # NoTx => tx_hash'[r] = tx_hash[r]
          /\ failedAt[r] # "" =>
                 /\ pc[r] = "done"
                 /\ pc'[r] \in {"done", "idle"}
                 /\ calls'[r] \in {calls[r], NoCalls}
          /\ (UploadFailed(r) /\ pc'[r] # "idle") =>
                 calls'[r].pinata = 1]_vars

\* C11's case: a request whose upload failed and whose broadcast the node
\* rejected, answered after one attempt of each.
C11_Witness ==
    \E r \in Reqs :
        /\ Answered(r)
        /\ uploaded[r] = "non2xx"
        /\ failedAt[r] = "L163"
        /\ result[r].detail = "already known"
        /\ calls[r] = [pinata |-> 1, nonce |-> 1, gas_price |-> 1,
                       sign |-> 1, send |-> 1, wait |-> 0]

\* The receipt wait of request r elapsed with no receipt.
TimedOut(r) == failedAt[r] = "L166" /\ result[r].detail = "TimeExhausted"
\* The transactions the network holds: in the pool or mined.
OnNetwork == pending \cup {m.tx : m \in mined}

\* C12: a request whose receipt wait elapsed is answered 500 with the
\* message of the elapsed wait, which no other failure and no request without
\* a broadcast is answered with; it has broadcast once and does not broadcast
\* again; its transaction is not withdrawn: the network holds it, in the pool
\* or mined, while the request is answered and when the request is gone.
C12_TimeoutLeavesTransaction ==
    /\ [](\A r \in Reqs :
            /\ TimedOut(r) =>
                   /\ Answered(r)
                   /\ result[r].status = 500
                   /\ calls[r].send = 1 /\ calls[r].wait = 1
                   /\ tx_hash[r] = tx[r] /\ tx[r] # NoTx
                   /\ tx_hash[r] \in OnNetwork
            /\ result[r].detail = "TimeExhausted" =>
                   (failedAt[r] = "L166" /\ InStages(r, "Broadcast"))
            /\ (failedAt[r] = "L166" /\ Receipts(tx_hash[r]) = {}) =>
                   result[r].detail \in {"TimeExhausted", "ConnectionError"})
    /\ [][\A r \in Reqs :
             TimedOut(r) =>
                 /\ calls'[r].send <= 1
                 /\ tx_hash[r] \in pending' \cup {m.tx : m \in mined'}]_vars

\* C12's case: the request has failed on the elapsed wait and its
\* transaction has been mined since.
C12_Witness ==
    \E r \in Reqs :
        /\ TimedOut(r)
        /\ result[r].status = 500
        /\ \E m \in mined : m.tx = tx_hash[r]

\* Request r holds the nonce its read returned.
HasNonce(r) == calls[r].nonce = 1 /\ failedAt[r] # "L141"
\* Two requests hold the same nonce.
SameNonce(r, q) ==
    r # q /\ HasNonce(r) /\ HasNonce(q) /\ nonce[r] = nonce[q]
\* Both have read the same nonce and neither has broadcast yet.
Raced(r, q) ==
    /\ SameNonce(r, q)
    /\ pc[r] \in {"L144", "L161", "L163"}
    /\ pc[q] \in {"L144", "L161", "L163"}
\* The node's reasons to reject one of two transactions of the same nonce.
Collisions ==
    {"nonce too low", "already known", "replacement transaction underpriced"}
\* The broadcast of request r was accepted and its transaction is mined.
Included(r) ==
    InStages(r, "Broadcast") /\ \E m \in mined : m.tx = tx_hash[r]

\* C13 as amended: of two requests of concurrent workers that hold the same
\* nonce, at most one has its transaction mined and at most one is answered
\* with success; when both are answered one of them is answered 500 from a
\* chain stage; the node accepts both broadcasts only when they differ in
\* gas price (the dearer replaces the other in the pool), and then the
\* request that fails after its accepted broadcast fails on the receipt
\* wait; a request rejected at its broadcast is told the node's reason.
C13_CollisionOneWinner ==
    \A r, q \in Reqs :
        SameNonce(r, q) =>
            /\ ~(Included(r) /\ Included(q))
            /\ ~(result[r].status = 200 /\ result[q].status = 200)
            /\ (Answered(r) /\ Answered(q)) =>
                   \E x \in {r, q} :
                       result[x].status = 500 /\ failedAt[x] \in ChainLines
            /\ (InStages(r, "Broadcast") /\ InStages(q, "Broadcast")) =>
                   /\ tx[r].gasPrice # tx[q].gasPrice
                   /\ (Answered(r) /\ result[q].status = 200) =>
                          failedAt[r] = "L166"
            /\ (result[r].detail \in Collisions) =>
                   (failedAt[r] = "L163" /\ ~InStages(r, "Broadcast"))

\* C13's case: both requests read the same nonce, the node accepted both
\* broadcasts, and one request is answered with success while the other's
\* wait elapsed.
C13_Witness ==
    \E r, q \in Reqs :
        /\ SameNonce(r, q)
        /\ InStages(r, "Broadcast") /\ InStages(q, "Broadcast")
        /\ result[q].status = 200
        /\ TimedOut(r)

\* C13 as stated: once two requests have read the same nonce before either
\* has broadcast, the node accepts the broadcast of at most one of them,
\* when both are answered one of them is answered 500, and the two are
\* never both answered with success.
C13_OneRejectedAtBroadcast ==
    [](\A r, q \in Reqs :
          Raced(r, q) =>
              [](SameNonce(r, q) =>
                    /\ ~(InStages(r, "Broadcast") /\ InStages(q, "Broadcast"))
                    /\ ~(result[r].status = 200 /\ result[q].status = 200)
                    /\ (Answered(r) /\ Answered(q)) =>
                           \E x \in {r, q} : result[x].status = 500))

\* The node accepts the broadcast of request r in this step.
Accepted(r) == ~InStages(r, "Broadcast") /\ InStages(r, "Broadcast")'

\* C14: the nonce of a transaction is the one the request's own read
\* returned, and a transaction the node accepts carries a nonce greater than
\* that of every transaction broadcast before it (those in the pool and
\* those mined): nonces increase strictly in broadcast order, no two
\* broadcast transactions carry the same nonce.
C14_NoncesIncrease ==
    [][\A r \in Reqs :
          /\ tx'[r] # NoTx =>
                 (calls'[r].nonce = 1 /\ tx'[r].nonce = nonce'[r])
          /\ Accepted(r) =>
                 \A t \in OnNetwork : t.nonce < tx[r].nonce]_vars

\* y is n/10 rounded to the nearest integer, an exact half to the even one.
NearestHalfToEven(n, y) ==
    /\ 10 * y - n <= 5
    /\ n - 10 * y <= 5
    /\ (10 * y - n \in {5, -5}) => y % 2 = 0

\* C15: for every reading that converts, the scaled temperature and humidity
\* are the reading's tenths rounded to the nearest integer with exact halves
\* to the even neighbour, one rule for every input; the transaction built
\* carries these integers; and for a reading whose scaled temperature is
\* outside int16 (or scaled humidity outside uint16) no transaction is built
\* and the request is answered with an error.
C15_ScaledHalfEven ==
    \A r \in Reqs :
        (InStages(r, "Validated") /\ Converts(body[r])) =>
            /\ NearestHalfToEven(body[r].temperature.v, temp_times10[r])
            /\ NearestHalfToEven(body[r].humidity.v, hum_times10[r])
            /\ tx[r] # NoTx =>
                   /\ tx[r].temp = temp_times10[r]
                   /\ tx[r].hum = hum_times10[r]
                   /\ tx[r].temp \in INT16_MIN..INT16_MAX
                   /\ tx[r].hum \in 0..UINT16_MAX
            /\ (temp_times10[r] \notin INT16_MIN..INT16_MAX
                    \/ hum_times10[r] \notin 0..UINT16_MAX) =>
                   /\ tx[r] = NoTx
                   /\ pc[r] \in {"L124", "L141", "L144", "done"}
                   /\ Answered(r) => result[r].status \in {400, 500}

\* C15's case: the exact halves -0.25 and 0.05 give -2 and 0 in the
\* transaction built.
C15_Witness ==
    \E r \in Reqs :
        /\ body[r].temperature = Num(-25)
        /\ body[r].humidity = Num(5)
        /\ tx[r] # NoTx
        /\ tx[r].temp = -2
        /\ tx[r].hum = 0

\* C16: a request whose transaction needs more gas than the fixed limit of
\* 300000 is answered 500 at the broadcast, never with a success, and
\* broadcasts at most once, with that limit.
C16_OutOfGasIsFailure ==
    \A r \in Reqs :
        (tx[r] # NoTx /\ Exhausts(tx[r])) =>
            /\ tx[r].gas = GAS_LIMIT
            /\ calls[r].send <= 1
            /\ result[r].status = 200 => ReceiptStatus(tx[r]) = 1
            /\ Answered(r) =>
                   (result[r].status = 500 /\ failedAt[r] \in ChainLines)

\* The stage a request stopped at, by the line that raised.
StageOf(at) ==
    CASE at \in {"L96", "L101", "L104", "L113", "L115", "L116", "L120"}
             -> "validate"
      [] at \in {"L141", "L144", "L154"} -> "build"
      [] at = "L161" -> "sign"
      [] at = "L163" -> "submit"
      [] at = "L166" -> "confirm"
      [] OTHER -> "none"

\* C17: the result of a failed request tells the stage it stopped at: two
\* failed requests that stopped at different stages (validation, build,
\* signing, broadcast, confirmation) are answered with different results.
C17_ResultTellsStage ==
    \A r, q \in Reqs :
        (Answered(r) /\ Answered(q) /\ failedAt[r] # "" /\ failedAt[q] # ""
             /\ result[r] = result[q]) =>
            StageOf(failedAt[r]) = StageOf(failedAt[q])

\* The request-scoped values of request r.
Scoped(r) ==
    <<body[r], device_id[r], temp_c[r], hum[r], timestamp_ms[r],
      temp_times10[r], hum_times10[r], cid[r], nonce[r], tx[r], tx_hash[r],
      receipt[r], result[r], uploaded[r]>>

\* C18: no step of any request, whatever the other request is doing,
\* changes the signing key, the account, the contract address, the chain
\* id, the credential or the RPC handle, which keep their startup values;
\* a step changes the request-scoped values of one request at most; and the
\* values a request holds and answers with are made of its own body, its
\* own upload and its own nonce read, and of the configuration.
C18_FrameKept ==
    /\ [](/\ PRIVATE_KEY = "key" /\ CONTRACT_ADDRESS = "0xC0"
          /\ CHAIN_ID = 11155111 /\ w3 = [provider |-> "RPC_URL"]
          /\ account = [address |-> "0xA1", key |-> "key"])
    /\ [][/\ cfgVars' = cfgVars
          /\ \A r, q \in Reqs :
                 r # q => (Scoped(r)' = Scoped(r) \/ Scoped(q)' = Scoped(q))
         ]_vars
    /\ [](\A r \in Reqs :
            /\ InStages(r, "Validated") =>
                   /\ temp_c[r] = Float(body[r].temperature)
                   /\ hum[r] = Float(body[r].humidity)
                   /\ timestamp_ms[r] = body[r].timestamp_ms.v
                   /\ temp_times10[r] = Times10(Float(body[r].temperature))
                   /\ hum_times10[r] = Times10(Float(body[r].humidity))
            /\ cid[r] = CidOf(uploaded[r])
            /\ tx[r] # NoTx =>
                   /\ tx[r].nonce = nonce[r]
                   /\ tx[r].temp = temp_times10[r]
                   /\ tx[r].hum = hum_times10[r]
                   /\ tx[r].ts = timestamp_ms[r]
                   /\ tx[r].device_id = device_id[r]
                   /\ tx[r].from = account.address
                   /\ tx[r].to = CONTRACT_ADDRESS
                   /\ tx[r].chainId = CHAIN_ID
            /\ result[r].status = 200 =>
                   /\ result[r].cid = cid[r]
                   /\ result[r].tx_hash = Hex(tx[r])
                   /\ result[r].block = receipt[r].blockNumber)

\* C18's case: two requests with different readings, in flight together,
\* are both answered with success, each with its own identifier, under the
\* credential the process started with.
C18_Witness ==
    /\ PINATA_JWT = "jwt"
    /\ result[1].status = 200 /\ result[2].status = 200
    /\ body[1].temperature # body[2].temperature
    /\ tx[1].temp # tx[2].temp
    /\ result[1].cid = "bafy123" /\ result[2].cid = "bafy456"
    /\ calls[1].pinata = 1 /\ calls[2].pinata = 1

\* The arguments of the contract call and the fixed fields of a
\* transaction: all of it but the nonce and the gas price, which are read
\* from the node.
CallOf(t) ==
    [from |-> t.from, to |-> t.to, device_id |-> t.device_id,
     temp |-> t.temp, hum |-> t.hum, ts |-> t.ts, gas |-> t.gas,
     chainId |-> t.chainId]

\* C19: the transaction a request builds does not depend on its upload.
\* Its call arguments, gas limit and chain id are those of its body and of
\* the configuration whether the upload was skipped, failed or gave an
\* identifier, and its nonce is the one its own read returned; two requests
\* with the same body and different upload outcomes build the same call;
\* a success differs by the upload in its cid field only.
C19_TxIndependentOfUpload ==
    /\ \A r \in Reqs :
           /\ tx[r] # NoTx =>
                  /\ uploaded[r] # NoUpload
                  /\ calls[r].nonce = 1 /\ tx[r].nonce = nonce[r]
                  /\ CallOf(tx[r]) =
                         [from |-> account.address, to |-> CONTRACT_ADDRESS,
                          device_id |-> device_id[r],
                          temp |-> RoundHalfEven(body[r].temperature.v),
                          hum |-> RoundHalfEven(body[r].humidity.v),
                          ts |-> body[r].timestamp_ms.v,
                          gas |-> GAS_LIMIT, chainId |-> CHAIN_ID]
           /\ result[r].status = 200 =>
                  [result[r] EXCEPT !.cid = ""] =
                      Ok(tx[r], receipt[r].blockNumber, "")
    /\ \A r, q \in Reqs :
           (body[r] = body[q] /\ uploaded[r] # uploaded[q]
                /\ tx[r] # NoTx /\ tx[q] # NoTx) =>
               CallOf(tx[r]) = CallOf(tx[q])

\* C19's case: two requests with the same reading, one whose upload failed
\* and one whose upload gave an identifier, both answered with success.
C19_Witness ==
    \E r, q \in Reqs :
        /\ body[r] = body[q]
        /\ uploaded[r] = "raised" /\ uploaded[q] = "bafy123"
        /\ result[r].status = 200 /\ result[q].status = 200
        /\ result[r].cid = "" /\ result[q].cid = "bafy123"
        /\ CallOf(tx[r]) = CallOf(tx[q])

\* The calls to the chain node a request has made.
ChainCalls(r) ==
    calls[r].nonce + calls[r].gas_price + calls[r].send + calls[r].wait

\* C20: with a credential configured, a validated request has made its
\* upload attempt before its first chain call, so a request that failed at
\* a chain stage has made it; the identifier of a pinned reading stays with
\* the request when its chain stages fail (nothing is undone); a request
\* answered 400 has made no call at all, while an answer of 500 does not
\* say so.
C20_UploadBeforeChain ==
    \A r \in Reqs :
        /\ PINATA_JWT = "jwt" =>
               /\ (InStages(r, "Validated") /\ pc[r] # "L124") =>
                      (calls[r].pinata = 1 /\ uploaded[r] \in PinataOutcomes)
               /\ (ChainCalls(r) > 0 \/ calls[r].sign > 0) =>
                      calls[r].pinata = 1
               /\ failedAt[r] \in ChainLines =>
                      (calls[r].pinata = 1 /\ result[r].status = 500)
        /\ (uploaded[r] \in CIDs /\ failedAt[r] \in ChainLines) =>
               (cid[r] = uploaded[r] /\ calls[r].pinata = 1)
        /\ result[r].status = 400 =>
               (NoExternalCall(r) /\ uploaded[r] = NoUpload
                    /\ tx[r] = NoTx /\ ~InStages(r, "Validated"))
        /\ calls[r].pinata = 1 => InStages(r, "Validated")

\* C20's case: the reading was pinned, the signing failed, the request is
\* answered 500 and has broadcast nothing.
C20_Witness ==
    \E r \in Reqs :
        /\ uploaded[r] = "bafy123"
        /\ calls[r].pinata = 1
        /\ Answered(r)
        /\ failedAt[r] = "L161"
        /\ result[r].status = 500
        /\ calls[r].send = 0
        /\ tx_hash[r] = NoTx
        /\ \A t \in OnNetwork : t # tx[r]

====
